---- MODULE Spec2Model ----
(***************************************************************************)
(* Model of the admin dashboard client (src/static/js/admin.js) and of the *)
(* public download form (src/static/js/main.js).  A browser tab shows one  *)
(* of the two pages; page says which, and the state of the other page's    *)
(* script stays at its initial value.                                      *)
(*                                                                         *)
(* The browser runs one callback at a time, so every action below is one   *)
(* whole callback: a click handler, a timer callback or an ajax response   *)
(* handler.  Requests that were sent and not yet answered are kept in the  *)
(* bag inflight; the answer to any of them may arrive at any time and in   *)
(* any order (nothing is ever aborted).                                    *)
(***************************************************************************)
EXTENDS Integers, Sequences, FiniteSets, Bags, TLC

VARIABLES
    currentSection,      \* admin.js:4   let currentSection
    activeRegions,       \* the .content-section elements carrying class 'active'
    pageTitle,           \* text of #page-title
    content,             \* what each rendered container currently shows
    inflight,            \* bag of ajax requests sent and not yet answered
    modalActive,         \* #banner-modal carries class 'active'
    modalTitle,          \* text of #banner-modal-title
    form,                \* the fields of #banner-form
    alerts,              \* the alert elements whose 5 s timer is pending, oldest first
    sessionWarningShown, \* admin.js:767 let sessionWarningShown
    warnings,            \* observer: session warnings raised since the last successful probe
    hidden,              \* per table, the body rows the search handler has hidden
    search,              \* per table, the value of its .search-input
    csv,                 \* the text of the file downloadCSV produced last
    settingsInputs,      \* the inputs of #settings-form, each with its name and value
    autoSaveTimers,      \* the timers the settings input handler set that are pending
    page,                \* the page the tab shows: "admin" or "main"
    youtubeUrl,          \* value of #youtube-url
    sourceLanguage,      \* value of #source-language
    getInfoDisabled,     \* #get-info-btn carries the disabled property
    currentVideoInfo,    \* main.js:2   let currentVideoInfo
    videoPreviewShown,   \* #video-preview is shown
    previewModalShown,   \* #preview-modal is shown
    loadingShown,        \* #loading-overlay is shown
    stored,              \* the localStorage entry 'subtitleFormData'
    languageOptions,     \* the values of the options of #source-language
    last                 \* observer: the callback that ran last and what it did

vars == <<currentSection, activeRegions, pageTitle, content, inflight,
          modalActive, modalTitle, form, alerts,
          sessionWarningShown, warnings, hidden, search, csv,
          settingsInputs, autoSaveTimers, page,
          youtubeUrl, sourceLanguage, getInfoDisabled, currentVideoInfo,
          videoPreviewShown, previewModalShown, loadingShown,
          stored, languageOptions, last>>

navVars     == <<currentSection, activeRegions, pageTitle>>
modalVars   == <<modalActive, modalTitle, form>>
alertVars   == <<alerts>>
sessionVars == <<sessionWarningShown, warnings>>
tableVars   == <<hidden, search, csv>>
prefillVars == <<stored, languageOptions>>
mainVars    == <<youtubeUrl, sourceLanguage, getInfoDisabled, currentVideoInfo,
                 videoPreviewShown, previewModalShown, loadingShown, prefillVars>>
settingsVars == <<settingsInputs, autoSaveTimers>>
adminVars   == <<navVars, content, modalVars, sessionVars, settingsVars, tableVars>>

-----------------------------------------------------------------------------
(* Bounds of the model *)

\* at most this many requests are unanswered at any time
MaxInflight == 2

\* at most this many alert timers are pending at any time
MaxAlerts == 2

-----------------------------------------------------------------------------
(* Sections, containers, payloads *)

Sections == {"dashboard", "visitors", "banners", "downloads", "settings"}

\* a data-section value that names no region of the page
UnknownSection == "reports"

NavTargets == Sections \cup {UnknownSection}

\* the static lookup table of showSection, with its 'Dashboard' default
titles(section) ==
    CASE section = "dashboard" -> "Dashboard"
      [] section = "visitors"  -> "Quan ly Visitors"
      [] section = "banners"   -> "Quan ly Banners"
      [] section = "downloads" -> "Thong ke Downloads"
      [] section = "settings"  -> "Cai dat he thong"
      [] OTHER                 -> "Dashboard"

\* the containers the render functions write
Containers == {"stats", "popular", "chart", "visitors", "banners", "downloads", "settings"}

\* payloads a backend answer may carry for the stats, visitors, downloads
\* and settings endpoints
Payloads == {"v1"}

\* what a container shows before any render function has written it
Unrendered == "initial"

\* A JSON value that is a number or a string, given by its type and by the
\* string String() makes of it
Num(s) == [t |-> "number", s |-> s]
Str(s) == [t |-> "string", s |-> s]

\* the value is truthy: neither 0 nor ''
Truthy(v) == ~(v.t = "number" /\ v.s = "0") /\ ~(v.t = "string" /\ v.s = "")

\* `${value}` in a template literal, and what .val(value) stores
ToText(v) == v.s

\* the attribute texts that jQuery's .data() converts to a number:
\* those with +data + "" === data
NumericTexts == {"0", "1"}

\* $(el).data('id') for an element whose data-id attribute is attr
DataOf(attr) == IF attr \in NumericTexts THEN Num(attr) ELSE Str(attr)

Banner(id) ==
    [id |-> id, title |-> <<"a">>, description |-> "d", link_url |-> "l",
     position |-> "top", status |-> TRUE,
     image_path |-> IF id = Num("1") THEN "p0" ELSE ""]

\* the banner lists the backend may answer with, by name
BannerLists == {"[]", "[0,1]"}

\* the banners of a list; a container never rendered holds no banner
BannersOf(list) ==
    IF list = "[0,1]" THEN <<Banner(Num("0")), Banner(Num("1"))>> ELSE << >>

\* what $(this).data('id') yields on the buttons of the grid rendered from list
BannerIdsOf(list) ==
    {DataOf(ToText(BannersOf(list)[i].id)) : i \in DOMAIN BannersOf(list)}

-----------------------------------------------------------------------------
(* Requests and answers *)

Req(cb, method, url, data) == [cb |-> cb, method |-> method, url |-> url, data |-> data]

NoData == [none |-> TRUE]

StatsReq     == Req("loadDashboardData", "GET", "/admin/api/stats", NoData)
ChartReq     == Req("loadFormatChart", "GET", "/admin/api/downloads", NoData)
VisitorsReq  == Req("loadVisitors", "GET", "/admin/api/visitors", NoData)
BannersReq   == Req("loadBanners", "GET", "/admin/api/banners", NoData)
DownloadsReq == Req("loadDownloads", "GET", "/admin/api/downloads", NoData)
SettingsReq  == Req("loadSettings", "GET", "/admin/api/settings", NoData)

\* HTTP statuses for which jQuery runs the error callback
ErrorStatuses == {401, 500}

\* the status of an answer whose callback does not read xhr.status
AnyErrorStatus == 500

Success(value) == [kind |-> "success", status |-> 200, value |-> value]
Failure        == [kind |-> "failure", status |-> 200, value |-> "none"]
Error(status)  == [kind |-> "error", status |-> status, value |-> "none"]

\* every answer a request whose successful payload is drawn from values can get
Outcomes(values) ==
    {Success(v) : v \in values} \cup {Failure, Error(AnyErrorStatus)}

NoResp == [kind |-> "none", status |-> 0, value |-> "none"]

\* the observer's record of a callback: its name and the answer it ran on
Ev(h, resp) == [h |-> h, resp |-> resp]

RECURSIVE SeqToBag(_)
SeqToBag(s) == IF s = << >> THEN EmptyBag ELSE SetToBag({Head(s)}) (+) SeqToBag(Tail(s))

\* $.ajax for each request of reqs
Send(reqs) ==
    /\ BagCardinality(inflight) + Len(reqs) <= MaxInflight
    /\ inflight' = inflight (+) SeqToBag(reqs)

\* the answer to r arrives and its callback sends reqs
Answer(r, reqs) ==
    /\ BagIn(r, inflight)
    /\ BagCardinality(inflight) - 1 + Len(reqs) <= MaxInflight
    /\ inflight' = (inflight (-) SetToBag({r})) (+) SeqToBag(reqs)

-----------------------------------------------------------------------------
(* Navigation controller *)

\* a switch with a default branch that loads the dashboard
LoaderReqDefaulting(section) ==
    CASE section = "visitors"  -> <<VisitorsReq>>
      [] section = "banners"   -> <<BannersReq>>
      [] section = "downloads" -> <<DownloadsReq>>
      [] section = "settings"  -> <<SettingsReq>>
      [] OTHER                 -> <<StatsReq>>

\* the request the switch of showSection sends for section
LoaderReq(section) ==
    CASE section = "dashboard" -> <<StatsReq>>
      [] section = "visitors"  -> <<VisitorsReq>>
      [] section = "banners"   -> <<BannersReq>>
      [] section = "downloads" -> <<DownloadsReq>>
      [] section = "settings"  -> <<SettingsReq>>
      [] OTHER                 -> << >>

\* showSection without its removeClass('active') on every region
RegionsAfterShowKeeping(regions, section) == regions \cup ({section} \cap Sections)

\* $('.content-section').removeClass('active'); $(`#${section}-section`).addClass('active')
RegionsAfterShow(regions, section) ==
    (regions \ Sections) \cup ({section} \cap Sections)

\* showSection(section), the body of the .nav-item click handler
showSection(section) ==
    /\ currentSection' = section
    /\ activeRegions' = RegionsAfterShow(activeRegions, section)
    /\ pageTitle' = titles(section)
    /\ Send(LoaderReq(section))
    /\ last' = Ev("showSection", NoResp)
    /\ UNCHANGED <<content, modalVars, alertVars, sessionVars, settingsVars, tableVars, page, mainVars>>

ClickNav == \E section \in NavTargets : showSection(section)

-----------------------------------------------------------------------------
(* Alert presenter *)

AlertTypes == {"error", "success", "info"}

\* An alert element lives from showAlert until its own timer has fired.  All
\* timers run 5 s, so they fire in the order they were started: alerts holds
\* the elements whose timer is pending, oldest first, each with its class and
\* whether it is still attached to the page.

\* $('.alert').remove()
RemoveAlerts(as) == [i \in DOMAIN as |-> [as[i] EXCEPT !.inPage = FALSE]]

\* a showAlert without its $('.alert').remove()
AlertsAfterShowKeeping(as, type) == Append(as, [type |-> type, inPage |-> TRUE])

\* showAlert(message, type): remove every .alert, append the new one and
\* start its 5 s timer.  The timers of removed alerts keep running.
AlertsAfterShow(as, type) == Append(RemoveAlerts(as), [type |-> type, inPage |-> TRUE])

showAlert(type) ==
    /\ Len(alerts) < MaxAlerts
    /\ alerts' = AlertsAfterShow(alerts, type)

\* the alerts a callback shows: every callback of admin.js calls showAlert
\* at most once
ShowAlerts(types) ==
    IF types = << >> THEN UNCHANGED alertVars ELSE showAlert(types[1])

\* a timer callback that fades out and removes whatever matches '.alert'
AlertsAfterTimerAll(as) == Tail(RemoveAlerts(as))

\* the setTimeout callback of showAlert: alert.fadeOut(function() {
\* $(this).remove() }) removes the element its closure holds; the fade and
\* the removal that ends it are taken as one step
AlertsAfterTimer(as) == Tail(as)

AlertTimerFires ==
    /\ alerts # << >>
    /\ alerts' = AlertsAfterTimer(alerts)
    /\ last' = Ev("alertTimer", NoResp)
    /\ UNCHANGED <<adminVars, inflight, page, mainVars>>

\* the alert elements attached to the page
AlertsInPage == {i \in DOMAIN alerts : alerts[i].inPage}

-----------------------------------------------------------------------------
(* Data loaders *)

LoaderCbs == {"loadDashboardData", "loadFormatChart", "loadVisitors",
              "loadBanners", "loadDownloads", "loadSettings"}

\* the payloads a successful answer to a loader request may carry
LoaderValues(cb) == IF cb = "loadBanners" THEN BannerLists ELSE Payloads

\* the containers the success branch of a loader's callback renders into
RenderTargets(cb) ==
    CASE cb = "loadDashboardData" -> {"stats", "popular"}
      [] cb = "loadFormatChart"   -> {"chart"}
      [] cb = "loadVisitors"      -> {"visitors"}
      [] cb = "loadBanners"       -> {"banners"}
      [] cb = "loadDownloads"     -> {"downloads"}
      [] cb = "loadSettings"      -> {"settings"}
      [] OTHER                    -> {}

\* a loader that empties its container before it looks at the answer
ContentAfterEmptying(old, cb, out) ==
    [c \in Containers |->
        IF c \in RenderTargets(cb)
        THEN (IF out.kind = "success" THEN out.value ELSE "empty")
        ELSE old[c]]

\* a loader that renders only while the section it was started for is current
ContentAfterIfActive(old, cb, out) ==
    IF /\ out.kind = "success"
       /\ \/ LoaderReq(currentSection) # << >> /\ LoaderReq(currentSection)[1].cb = cb
          \/ currentSection = "dashboard" /\ cb = "loadFormatChart"
    THEN [c \in Containers |-> IF c \in RenderTargets(cb) THEN out.value ELSE old[c]]
    ELSE old

\* the page content after a loader's callback ran on answer out:
\* only 'if (response.success)' renders
ContentAfter(old, cb, out) ==
    IF out.kind = "success"
    THEN [c \in Containers |-> IF c \in RenderTargets(cb) THEN out.value ELSE old[c]]
    ELSE old

\* requests a loader's callback sends: loadDashboardData chains loadFormatChart
LoaderFollowUp(cb, out) ==
    IF cb = "loadDashboardData" /\ out.kind = "success" THEN <<ChartReq>> ELSE << >>

\* alerts a loader's callback shows: the error callbacks only console.error,
\* and an answer with success=false is ignored
LoaderAlerts(cb, out) == << >>

\* the tables that have a search input and an export
Tables == {"visitors", "downloads"}

\* the rows hidden after a loader's callback ran on answer out: the render
\* function empties the tbody and appends fresh rows
HiddenAfter(h, cb, out) ==
    IF out.kind = "success" /\ cb \in {"loadVisitors", "loadDownloads"}
    THEN [t \in Tables |-> IF t \in RenderTargets(cb) THEN {} ELSE h[t]]
    ELSE h

\* the inputs updateSettingsForm renders from the settings of a payload, one
\* per setting, with the setting's key as name and its value as value
SettingsOf(payload) ==
    IF payload = "v1" THEN << [name |-> "site_name", value |-> "s0"] >> ELSE << >>

\* the inputs of #settings-form after a loader's callback ran on answer out
InputsAfter(inputs, cb, out) ==
    IF out.kind = "success" /\ cb = "loadSettings" THEN SettingsOf(out.value) ELSE inputs

\* the success or error callback of a loader's $.ajax
LoaderResponse ==
    \E r \in BagToSet(inflight) :
        /\ r.cb \in LoaderCbs
        /\ \E out \in Outcomes(LoaderValues(r.cb)) :
            /\ Answer(r, LoaderFollowUp(r.cb, out))
            /\ content' = ContentAfter(content, r.cb, out)
            /\ ShowAlerts(LoaderAlerts(r.cb, out))
            /\ last' = Ev(r.cb, out)
            /\ hidden' = HiddenAfter(hidden, r.cb, out)
            /\ settingsInputs' = InputsAfter(settingsInputs, r.cb, out)
            /\ UNCHANGED <<navVars, modalVars, sessionVars, autoSaveTimers, search, csv,
                           page, mainVars>>

-----------------------------------------------------------------------------
(* Tables: search filter and CSV export *)

\* Texts are sequences of characters.  The body rows updateVisitorsTable and
\* updateDownloadsTable render from a payload, each row as the texts of its
\* cells; a table that was never rendered has no body row
RowsOf(payload) ==
    IF payload = "v1"
    THEN << << <<"a">>, <<"b", ",", "c">> >>,
            << <<"A", "b">>, <<",">> >> >>
    ELSE << >>

\* the texts of the thead th cells of a table
Headers(table) ==
    IF table = "visitors" THEN << <<"I", "P">>, <<"U", "A">> >>
    ELSE << <<"T">>, <<"F">> >>

\* the values typed into a search input
SearchTerms == {<< >>, <<"A", "B">>, <<"z">>}

\* Array.prototype.join and String.prototype.concat on sequences of texts
RECURSIVE Join(_, _)
Join(texts, sep) ==
    IF texts = << >> THEN << >>
    ELSE IF Len(texts) = 1 THEN texts[1]
    ELSE texts[1] \o sep \o Join(Tail(texts), sep)

\* String.prototype.toLowerCase
ToLowerCase(text) ==
    LET LowerChar(c) ==
            CASE c = "A" -> "a" [] c = "B" -> "b" [] c = "I" -> "i" [] c = "P" -> "p"
              [] c = "U" -> "u" [] c = "T" -> "t" [] c = "F" -> "f" [] OTHER -> c
    IN  [i \in DOMAIN text |-> LowerChar(text[i])]

\* String.prototype.includes
Includes(text, term) ==
    \E i \in 0..(Len(text) - Len(term)) :
        \A j \in 1..Len(term) : text[i + j] = term[j]

\* $(tr).text(): the cell texts with the white space the row template puts
\* around them
RowText(row) == <<" ">> \o Join(row, <<" ">>) \o <<" ">>

\* the rows the search handler hides for term
HiddenBySearch(rows, term) ==
    {i \in DOMAIN rows : ~Includes(ToLowerCase(RowText(rows[i])), ToLowerCase(term))}

\* the input handler of .search-input, for the input whose data-target is table
SearchInput ==
    \E table \in Tables, term \in SearchTerms :
        /\ search' = [search EXCEPT ![table] = term]
        /\ hidden' = [hidden EXCEPT ![table] = HiddenBySearch(RowsOf(content[table]), term)]
        /\ last' = Ev("search", NoResp)
        /\ UNCHANGED <<navVars, content, inflight, modalVars, alertVars, sessionVars, settingsVars,
                       csv, page, mainVars>>

\* tbody tr:visible: a row is visible when the search has not hidden it and
\* the section that holds the table is displayed
VisibleRows(table) ==
    IF table \in activeRegions
    THEN {i \in DOMAIN RowsOf(content[table]) : i \notin hidden[table]}
    ELSE {}

\* a cell text written as it is, commas included
ReplaceCommasNone(text) == text

\* String.prototype.replace(/,/g, ';')
ReplaceCommas(text) == [i \in DOMAIN text |-> IF text[i] = "," THEN ";" ELSE text[i]]

\* the rows of a table whose index is in keep, in table order
RECURSIVE SelectRows(_, _, _)
SelectRows(rows, keep, i) ==
    IF i > Len(rows) THEN << >>
    ELSE (IF i \in keep THEN <<rows[i]>> ELSE << >>) \o SelectRows(rows, keep, i + 1)

\* a getTableData that collects every body row, hidden or not
getTableDataAllRows(table) ==
    <<Headers(table)>> \o
    [i \in DOMAIN RowsOf(content[table]) |->
        [j \in DOMAIN RowsOf(content[table])[i] |-> ReplaceCommas(RowsOf(content[table])[i][j])]]

\* getTableData(tableSelector): the header texts, then the visible rows
getTableData(table) ==
    LET rows == SelectRows(RowsOf(content[table]), VisibleRows(table), 1)
    IN  <<Headers(table)>> \o
        [i \in DOMAIN rows |-> [j \in DOMAIN rows[i] |-> ReplaceCommas(rows[i][j])]]

\* the type arguments exportData is called with
ExportTypes == {"visitors", "downloads", "banners", "other"}

\* an export that has no data for a table without visible rows
ExportDataOfNonEmpty(type) ==
    IF type \in Tables /\ VisibleRows(type) # {} THEN getTableData(type) ELSE << >>

\* the switch of exportData: the data and the file name for type
ExportDataOf(type) == IF type \in Tables THEN getTableData(type) ELSE << >>

ExportFilename(type) ==
    CASE type = "visitors"  -> "visitors_export.csv"
      [] type = "downloads" -> "downloads_export.csv"
      [] type = "banners"   -> "banners_export.csv"
      [] OTHER              -> ""

\* data.map(row => row.join(',')).join('\n')
CsvContent(data) ==
    Join([i \in DOMAIN data |-> Join(data[i], <<",">>)], <<"\n">>)

NoFile == [filename |-> "", text |-> << >>]

\* window.exportData(type), with the downloadCSV it calls
exportData ==
    \E type \in ExportTypes :
        /\ IF Len(ExportDataOf(type)) > 0
           THEN /\ csv' = [filename |-> ExportFilename(type),
                           text |-> CsvContent(ExportDataOf(type))]
                /\ showAlert("success")
           ELSE UNCHANGED <<csv, alertVars>>
        /\ last' = Ev("exportData", [kind |-> "export", status |-> 0, value |-> type])
        /\ UNCHANGED <<navVars, content, inflight, modalVars, sessionVars, settingsVars,
                       hidden, search, page, mainVars>>

-----------------------------------------------------------------------------
(* Polling scheduler *)

\* a tick that reloads whichever section is current
AutoRefreshReqAnySection(section) == LoaderReq(section)

\* the request the 30 s setInterval callback sends when section is current
AutoRefreshReq(section) ==
    IF section = "dashboard" THEN <<StatsReq>>
    ELSE IF section = "visitors" THEN <<VisitorsReq>>
    ELSE << >>

\* one tick of the auto-refresh timer set up by init()
AutoRefreshTick ==
    /\ Send(AutoRefreshReq(currentSection))
    /\ last' = Ev("autoRefresh", NoResp)
    /\ UNCHANGED <<navVars, content, modalVars, alertVars, sessionVars, settingsVars, tableVars, page, mainVars>>

-----------------------------------------------------------------------------
(* Page load *)

\* the region the page template marks active
InitialRegions == {"dashboard"}

EmptyForm ==
    [bannerId |-> "", title |-> << >>, description |-> "", link_url |-> "",
     position |-> "", status |-> FALSE, image |-> ""]

\* no search was typed and no file was exported
TablesAtLoad ==
    /\ hidden = [t \in Tables |-> {}]
    /\ search = [t \in Tables |-> << >>]
    /\ csv = NoFile

\* the options the page template gives #source-language: the default English
\* option that updateLanguageOptions keeps
TemplateLanguages == {"en"}

\* localStorage without the entry 'subtitleFormData'
NoEntry == [present |-> FALSE, url |-> << >>, sourceLanguage |-> ""]

\* the fields and elements of the public page as its template has them,
\* main.js:2, and a localStorage that holds nothing for the form
MainAtLoad ==
    /\ youtubeUrl = << >>
    /\ sourceLanguage = "en"
    /\ getInfoDisabled = FALSE
    /\ currentVideoInfo = "null"
    /\ videoPreviewShown = FALSE
    /\ previewModalShown = FALSE
    /\ loadingShown = FALSE
    /\ stored = NoEntry
    /\ languageOptions = TemplateLanguages

\* the state when $(document).ready has run: init() and the last line of the
\* ready callback each called loadDashboardData()
Init ==
    /\ currentSection = "dashboard"
    /\ activeRegions = InitialRegions
    /\ pageTitle = "Dashboard"
    /\ content = [c \in Containers |-> Unrendered]
    /\ inflight = SeqToBag(<<StatsReq, StatsReq>>)
    /\ modalActive = FALSE
    /\ modalTitle = ""
    /\ form = EmptyForm
    /\ alerts = << >>
    /\ sessionWarningShown = FALSE
    /\ warnings = 0
    /\ settingsInputs = << >>
    /\ autoSaveTimers = 0
    /\ TablesAtLoad
    /\ page = "admin"
    /\ MainAtLoad
    /\ last = Ev("ready", NoResp)

-----------------------------------------------------------------------------
(* Banner modal and form *)

TitleValues == {<< >>, <<" ">>, <<"a">>}

PositionValues == {"", "top"}

FileValues == {"", "f1"}

\* image paths /admin/upload may answer with
ImagePaths == {"p1", "p2"}

\* String.prototype.trim on a string given as its sequence of characters
RECURSIVE TrimLeft(_)
TrimLeft(t) == IF t # << >> /\ Head(t) = " " THEN TrimLeft(Tail(t)) ELSE t

RECURSIVE TrimRight(_)
TrimRight(t) ==
    IF t # << >> /\ t[Len(t)] = " " THEN TrimRight(SubSeq(t, 1, Len(t) - 1)) ELSE t

Trim(t) == TrimRight(TrimLeft(t))

EditReq(bannerId) ==
    Req("loadBannerData", "GET", "/admin/api/banners", [bannerId |-> bannerId])

\* const method = isEdit ? 'PUT' : 'POST'
SaveMethod(isEdit) == IF isEdit THEN "PUT" ELSE "POST"

SaveReq(data, isEdit) == Req("saveBanner", SaveMethod(isEdit), "/admin/api/banners", data)

\* the upload request together with what its success callback closes over
UploadReq(file, data, isEdit) ==
    Req("uploadBannerImage", "POST", "/admin/upload",
        [file |-> file, formData |-> data, isEdit |-> isEdit])

DeleteReq(bannerId) ==
    Req("deleteBanner", "DELETE", "/admin/api/banners", [id |-> bannerId])

\* const isEdit = bannerId !== ''
IsEdit(f) == f.bannerId # ""

\* the formData object the submit handler builds: id only when isEdit
FormData(f) ==
    [k \in {"title", "description", "link_url", "position", "status"}
            \cup (IF IsEdit(f) THEN {"id"} ELSE {}) |->
        CASE k = "title"       -> f.title
          [] k = "description" -> f.description
          [] k = "link_url"    -> f.link_url
          [] k = "position"    -> f.position
          [] k = "status"      -> f.status
          [] k = "id"          -> f.bannerId]

\* formData.image_path = imagePath
WithImagePath(data, path) ==
    [k \in DOMAIN data \cup {"image_path"} |->
        IF k = "image_path" THEN path ELSE data[k]]

\* the requests the save handler of the form's submit event sends
SubmitRequests(f) ==
    IF f.image # ""
    THEN <<UploadReq(f.image, FormData(f), IsEdit(f))>>
    ELSE <<SaveReq(FormData(f), IsEdit(f))>>

\* validateBannerForm(): its return value
validateBannerForm(f) == Trim(f.title) # << >> /\ f.position # ""

\* validateBannerForm(): the alert it shows
ValidationAlerts(f) == IF validateBannerForm(f) THEN << >> ELSE <<"error">>

\* a submit event of #banner-form: jQuery runs the two bound handlers in the
\* order they were bound, the save handler first and the validation handler
\* second
SubmitBannerForm ==
    /\ page = "admin"
    /\ Send(SubmitRequests(form))
    /\ ShowAlerts(ValidationAlerts(form))
    /\ last' = Ev("submit", NoResp)
    /\ UNCHANGED <<navVars, content, modalVars, sessionVars, settingsVars, tableVars, page, mainVars>>

\* an upload callback that saves without the returned path
UploadFollowUpNoPath(r, out) ==
    IF out.kind = "success" THEN <<SaveReq(r.data.formData, r.data.isEdit)>> ELSE << >>

\* an upload callback that reads the banner id again when the upload is done
UploadFollowUpLateId(r, out) ==
    IF out.kind = "success"
    THEN <<SaveReq(WithImagePath(FormData(form), out.value), IsEdit(form))>>
    ELSE << >>

\* what the success callback of uploadBannerImage sends
UploadFollowUp(r, out) ==
    IF out.kind = "success"
    THEN <<SaveReq(WithImagePath(r.data.formData, out.value), r.data.isEdit)>>
    ELSE << >>

UploadAlerts(out) == IF out.kind = "success" THEN << >> ELSE <<"error">>

\* the success or error callback of uploadBannerImage's $.ajax
UploadResponse ==
    \E r \in BagToSet(inflight) :
        /\ r.cb = "uploadBannerImage"
        /\ \E out \in Outcomes(ImagePaths) :
            /\ Answer(r, UploadFollowUp(r, out))
            /\ ShowAlerts(UploadAlerts(out))
            /\ last' = Ev(r.cb, out)
            /\ UNCHANGED <<navVars, content, modalVars, sessionVars, settingsVars, tableVars, page, mainVars>>

\* a save callback that reloads the list whatever the answer
SaveFollowUpAlways(out) == <<BannersReq>>

\* saveBanner's callbacks: loadBanners() only on success
SaveFollowUp(out) == IF out.kind = "success" THEN <<BannersReq>> ELSE << >>

SaveAlerts(out) == IF out.kind = "success" THEN <<"success">> ELSE <<"error">>

\* a save callback that closes the modal whatever the answer
ModalAfterSaveAlways(active, out) == FALSE

\* saveBanner's callbacks: closeBannerModal() only on success
ModalAfterSave(active, out) == IF out.kind = "success" THEN FALSE ELSE active

\* the success or error callback of saveBanner's $.ajax
SaveBannerResponse ==
    \E r \in BagToSet(inflight) :
        /\ r.cb = "saveBanner"
        /\ \E out \in Outcomes({"saved"}) :
            /\ Answer(r, SaveFollowUp(out))
            /\ ShowAlerts(SaveAlerts(out))
            /\ modalActive' = ModalAfterSave(modalActive, out)
            /\ last' = Ev(r.cb, out)
            /\ UNCHANGED <<navVars, content, modalTitle, form, sessionVars, settingsVars, tableVars, page, mainVars>>

\* the observer's record of a confirm() dialog about banner bannerId
Confirm(confirmed, bannerId) ==
    [kind |-> IF confirmed THEN "ok" ELSE "cancel", status |-> 0, value |-> ToText(bannerId)]

\* a click handler that deletes without waiting for the dialog's answer
DeleteRequestsUnasked(bannerId, confirmed) == <<DeleteReq(bannerId)>>

\* the click handler of .delete-banner: confirm(), then deleteBanner(bannerId)
DeleteRequests(bannerId, confirmed) ==
    IF confirmed THEN <<DeleteReq(bannerId)>> ELSE << >>

ClickDeleteBanner ==
    \E bannerId \in BannerIdsOf(content["banners"]), confirmed \in BOOLEAN :
        /\ Send(DeleteRequests(bannerId, confirmed))
        /\ last' = Ev("clickDelete", Confirm(confirmed, bannerId))
        /\ UNCHANGED <<navVars, content, modalVars, alertVars, sessionVars, settingsVars, tableVars, page, mainVars>>

DeleteFollowUp(out) == IF out.kind = "success" THEN <<BannersReq>> ELSE << >>

DeleteAlerts(out) == IF out.kind = "success" THEN <<"success">> ELSE <<"error">>

\* the success or error callback of deleteBanner's $.ajax
DeleteBannerResponse ==
    \E r \in BagToSet(inflight) :
        /\ r.cb = "deleteBanner"
        /\ \E out \in Outcomes({"deleted"}) :
            /\ Answer(r, DeleteFollowUp(out))
            /\ ShowAlerts(DeleteAlerts(out))
            /\ last' = Ev(r.cb, out)
            /\ UNCHANGED <<navVars, content, modalVars, sessionVars, settingsVars, tableVars, page, mainVars>>

\* form.reset(); $('#banner-id').val('')
ResetForm(f) == EmptyForm

\* the observer's record of the argument of showBannerModal
Arg(bannerId) == [kind |-> bannerId.t, status |-> 0, value |-> ToText(bannerId)]
NoArg == [kind |-> "null", status |-> 0, value |-> "null"]

\* showBannerModal(bannerId), the branch of a truthy bannerId: edit mode
showBannerModalEdit(bannerId) ==
    /\ modalTitle' = "Chinh sua Banner"
    /\ Send(<<EditReq(bannerId)>>)
    /\ modalActive' = TRUE
    /\ last' = Ev("showBannerModal", Arg(bannerId))
    /\ UNCHANGED <<navVars, content, form, alertVars, sessionVars, settingsVars, tableVars, page, mainVars>>

\* showBannerModal(bannerId), the branch of a falsy bannerId (null when the
\* call has no argument): create mode
showBannerModalCreate(arg) ==
    /\ modalTitle' = "Them Banner"
    /\ form' = ResetForm(form)
    /\ modalActive' = TRUE
    /\ last' = Ev("showBannerModal", arg)
    /\ UNCHANGED <<navVars, content, inflight, alertVars, sessionVars, settingsVars, tableVars, page, mainVars>>

\* the click handler of .edit-banner, on a card of the rendered grid
ClickEditBanner ==
    \E bannerId \in BannerIdsOf(content["banners"]) :
        IF Truthy(bannerId)
        THEN showBannerModalEdit(bannerId)
        ELSE showBannerModalCreate(Arg(bannerId))

\* the Ctrl+N shortcut of the keydown handler
KeyCtrlN ==
    /\ currentSection = "banners"
    /\ showBannerModalCreate(NoArg)

\* the form after loadBannerData's success callback ran on answer out
FormAfterLoad(f, bannerId, out) ==
    IF out.kind = "success"
       /\ \E i \in DOMAIN BannersOf(out.value) : BannersOf(out.value)[i].id = bannerId
    THEN LET banner == CHOOSE b \in {BannersOf(out.value)[i] : i \in DOMAIN BannersOf(out.value)} :
                           b.id = bannerId
         IN [f EXCEPT !.bannerId = ToText(banner.id), !.title = banner.title,
                      !.description = banner.description, !.link_url = banner.link_url,
                      !.position = banner.position, !.status = banner.status]
    ELSE f

\* the success callback of loadBannerData's $.ajax (it has no error callback)
LoadBannerDataResponse ==
    \E r \in BagToSet(inflight) :
        /\ r.cb = "loadBannerData"
        /\ \E out \in Outcomes(BannerLists) :
            /\ Answer(r, << >>)
            /\ form' = FormAfterLoad(form, r.data.bannerId, out)
            /\ last' = Ev(r.cb, out)
            /\ UNCHANGED <<navVars, content, modalActive, modalTitle, alertVars, sessionVars, settingsVars, tableVars, page, mainVars>>

\* window.closeBannerModal
closeBannerModal ==
    /\ page = "admin"
    /\ modalActive' = FALSE
    /\ last' = Ev("closeBannerModal", NoResp)
    /\ UNCHANGED <<navVars, content, inflight, modalTitle, form, alertVars, sessionVars, settingsVars, tableVars, page, mainVars>>

\* a close handler that toggles the class instead of removing it
ActiveAfterCloseToggling(active) == ~active

\* removeClass('active') on the modal: whether it still carries the class
ActiveAfterClose(active) == FALSE

\* the observer's record of the modal state a close handler found
Found(open) == [kind |-> IF open THEN "open" ELSE "closed", status |-> 0, value |-> "none"]

\* a modal handler of the admin page closes the banner modal; event names it
CloseModal(event) ==
    /\ page = "admin"
    /\ modalActive' = ActiveAfterClose(modalActive)
    /\ last' = Ev(event, Found(modalActive))
    /\ UNCHANGED <<navVars, content, inflight, modalTitle, form, alertVars, sessionVars, settingsVars, tableVars, page, mainVars>>

\* the click handler of the modal's .close button
ClickClose == CloseModal("clickClose")

\* the click handler of window, for a click whose target is the modal itself
ClickBackdrop == CloseModal("clickBackdrop")

\* the Escape branch of the keydown handler
KeyEscape == CloseModal("keyEscape")

\* the user types into #banner-title
EditTitle ==
    \E t \in TitleValues :
        /\ form' = [form EXCEPT !.title = t]
        /\ last' = Ev("input", NoResp)
        /\ UNCHANGED <<navVars, content, inflight, modalActive, modalTitle, alertVars, sessionVars, settingsVars, tableVars, page, mainVars>>

\* the user picks an option of #banner-position
EditPosition ==
    \E p \in PositionValues :
        /\ form' = [form EXCEPT !.position = p]
        /\ last' = Ev("input", NoResp)
        /\ UNCHANGED <<navVars, content, inflight, modalActive, modalTitle, alertVars, sessionVars, settingsVars, tableVars, page, mainVars>>

\* the user picks (or clears) the file of #banner-image
ChooseImage ==
    \E file \in FileValues :
        /\ form' = [form EXCEPT !.image = file]
        /\ last' = Ev("input", NoResp)
        /\ UNCHANGED <<navVars, content, inflight, modalActive, modalTitle, alertVars, sessionVars, settingsVars, tableVars, page, mainVars>>

\* the banners section is shown and its grid was rendered from some answer
InitBanner ==
    \E list \in BannerLists :
        /\ currentSection = "banners"
        /\ activeRegions = {"banners"}
        /\ pageTitle = titles("banners")
        /\ content = [c \in Containers |-> IF c = "banners" THEN list ELSE Unrendered]
        /\ inflight = EmptyBag
        /\ modalActive = FALSE
        /\ modalTitle = ""
        /\ form = EmptyForm
        /\ alerts = << >>
        /\ sessionWarningShown = FALSE
        /\ warnings = 0
        /\ settingsInputs = << >>
        /\ autoSaveTimers = 0
        /\ TablesAtLoad
        /\ page = "admin"
        /\ MainAtLoad
        /\ last = Ev("loadBanners", Success(list))

\* typing into the form of a new banner and submitting it
NextForm ==
    \/ EditTitle
    \/ EditPosition
    \/ SubmitBannerForm
    \/ SaveBannerResponse
    \/ LoaderResponse
    \/ AlertTimerFires

SpecForm == InitBanner /\ [][NextForm]_vars

\* opening and closing the modal, saving and deleting banners
NextSave ==
    \/ KeyCtrlN
    \/ closeBannerModal
    \/ EditTitle
    \/ SubmitBannerForm
    \/ SaveBannerResponse
    \/ ClickDeleteBanner
    \/ DeleteBannerResponse
    \/ LoaderResponse
    \/ AlertTimerFires

SpecSave == InitBanner /\ [][NextSave]_vars

\* editing banners of the grid, with and without an image to upload
NextBanner ==
    \/ KeyCtrlN
    \/ ClickEditBanner
    \/ LoadBannerDataResponse
    \/ ChooseImage
    \/ SubmitBannerForm
    \/ UploadResponse
    \/ SaveBannerResponse
    \/ LoaderResponse
    \/ AlertTimerFires

SpecBanner == InitBanner /\ [][NextBanner]_vars

-----------------------------------------------------------------------------
(* Settings form *)

\* the values typed into a settings input
SettingValues == {"s0", "s1"}

\* saveSettings(): the POST with the name and value of every input of the form
SaveSettingsReq(inputs) ==
    Req("saveSettings", "POST", "/admin/api/settings", [settings |-> inputs])

\* an input handler that sets a timer without clearing the pending one
TimersAfterInputKeeping(timers) == timers + 1

\* clearTimeout(autoSaveTimeout); autoSaveTimeout = setTimeout(..., 2000):
\* the pending timer, if any, is cancelled and one is started
TimersAfterInput(timers) == 1

\* the delegated input handler of #settings-form, for a value typed into one
\* of its inputs
SettingsInput ==
    \E i \in DOMAIN settingsInputs, value \in SettingValues :
        /\ page = "admin"
        /\ settingsInputs' = [settingsInputs EXCEPT ![i].value = value]
        /\ autoSaveTimers' = TimersAfterInput(autoSaveTimers)
        /\ last' = Ev("settingsInput", NoResp)
        /\ UNCHANGED <<navVars, content, inflight, modalVars, alertVars, sessionVars,
                       tableVars, page, mainVars>>

\* the setTimeout callback of the input handler: showAlert, then saveSettings()
AutoSaveTimerFires ==
    /\ autoSaveTimers > 0
    /\ autoSaveTimers' = autoSaveTimers - 1
    /\ showAlert("info")
    /\ Send(<<SaveSettingsReq(settingsInputs)>>)
    /\ last' = Ev("autoSave", NoResp)
    /\ UNCHANGED <<navVars, content, modalVars, sessionVars, settingsInputs,
                   tableVars, page, mainVars>>

\* the Ctrl+S branch of the keydown handler
KeyCtrlS ==
    /\ page = "admin"
    /\ currentSection = "settings"
    /\ Send(<<SaveSettingsReq(settingsInputs)>>)
    /\ last' = Ev("keyCtrlS", NoResp)
    /\ UNCHANGED <<navVars, content, modalVars, alertVars, sessionVars, settingsVars,
                   tableVars, page, mainVars>>

SaveSettingsAlerts(out) == IF out.kind = "success" THEN <<"success">> ELSE <<"error">>

\* the success or error callback of saveSettings' $.ajax
SaveSettingsResponse ==
    \E r \in BagToSet(inflight) :
        /\ r.cb = "saveSettings"
        /\ \E out \in Outcomes({"saved"}) :
            /\ Answer(r, << >>)
            /\ ShowAlerts(SaveSettingsAlerts(out))
            /\ last' = Ev(r.cb, out)
            /\ UNCHANGED <<navVars, content, modalVars, sessionVars, settingsVars,
                           tableVars, page, mainVars>>

\* the settings section is shown and its form was rendered from an answer
InitSettings ==
    /\ currentSection = "settings"
    /\ activeRegions = {"settings"}
    /\ pageTitle = titles("settings")
    /\ content = [c \in Containers |-> IF c = "settings" THEN "v1" ELSE Unrendered]
    /\ inflight = EmptyBag
    /\ modalActive = FALSE
    /\ modalTitle = ""
    /\ form = EmptyForm
    /\ alerts = << >>
    /\ sessionWarningShown = FALSE
    /\ warnings = 0
    /\ settingsInputs = SettingsOf("v1")
    /\ autoSaveTimers = 0
    /\ TablesAtLoad
    /\ page = "admin"
    /\ MainAtLoad
    /\ last = Ev("loadSettings", Success("v1"))

\* clicks on the nav items of the settings and the dashboard sections
ClickNavSettings == \E section \in {"settings", "dashboard"} : showSection(section)

\* typing into the settings form while it is saved and loaded again
NextSettings ==
    \/ SettingsInput
    \/ AutoSaveTimerFires
    \/ KeyCtrlS
    \/ SaveSettingsResponse
    \/ ClickNavSettings
    \/ LoaderResponse
    \/ AlertTimerFires

SpecSettings == InitSettings /\ [][NextSettings]_vars

-----------------------------------------------------------------------------
(* Session probe *)

ProbeReq == Req("sessionCheck", "GET", "/admin/api/stats", NoData)

\* every answer the probe can get; jQuery runs its success callback on every
\* 2xx answer, whatever the envelope says
ProbeOutcomes == {Success("v1"), Failure} \cup {Error(s) : s \in ErrorStatuses}

\* one tick of the 5 min setInterval: the probe is sent
SessionCheckTick ==
    /\ Send(<<ProbeReq>>)
    /\ last' = Ev("sessionCheck", NoResp)
    /\ UNCHANGED <<navVars, content, modalVars, alertVars, sessionVars, settingsVars, tableVars, page, mainVars>>

\* xhr.status === 401 && !sessionWarningShown
RaisesWarning(flag, out) == out.kind = "error" /\ out.status = 401 /\ ~flag

\* a probe callback that never sets the flag
FlagAfterProbeNeverSet(flag, out) == IF out.kind # "error" THEN FALSE ELSE flag

\* sessionWarningShown after the probe's callback ran on answer out
FlagAfterProbe(flag, out) ==
    IF out.kind # "error" THEN FALSE
    ELSE IF RaisesWarning(flag, out) THEN TRUE
    ELSE flag

ProbeAlerts(flag, out) == IF RaisesWarning(flag, out) THEN <<"error">> ELSE << >>

\* the success or error callback of the probe's $.ajax
SessionCheckResponse ==
    \E out \in ProbeOutcomes :
        /\ Answer(ProbeReq, << >>)
        /\ sessionWarningShown' = FlagAfterProbe(sessionWarningShown, out)
        /\ ShowAlerts(ProbeAlerts(sessionWarningShown, out))
        /\ warnings' = IF out.kind # "error" THEN 0
                       ELSE IF alerts' # alerts THEN warnings + 1
                       ELSE warnings
        /\ last' = Ev("sessionCheckResponse", out)
        /\ UNCHANGED <<navVars, content, modalVars, settingsVars, tableVars, page, mainVars>>

\* the session probe beside the dashboard's own polling
NextSession ==
    \/ SessionCheckTick
    \/ SessionCheckResponse
    \/ AutoRefreshTick
    \/ LoaderResponse
    \/ AlertTimerFires

SpecSession == Init /\ [][NextSession]_vars

-----------------------------------------------------------------------------
(* Public download form (main.js) *)

\* Values of #youtube-url, each a text given as its sequence of tokens
UrlValues ==
    {<< >>,
     <<" ", "youtu.be", "/", "v">>,
     <<"http://", "vimeo.com", "/", "v">>}

\* what response.video_info may be
VideoInfos == {"i1", "i2"}

\* the data-format values of the .btn-download buttons
Formats == {"srt"}

\* /^(https?:\/\/)?(www\.)?(youtube\.com|youtu\.be)\/.+$/.test(url): the
\* optional groups (https?:\/\/)? and (www\.)?, then the host, the slash and
\* at least one more character
isValidYouTubeUrl(url) ==
    LET AfterScheme(u) ==
            IF u # << >> /\ Head(u) \in {"http://", "https://"} THEN Tail(u) ELSE u
        AfterWww(u) == IF u # << >> /\ Head(u) = "www." THEN Tail(u) ELSE u
        rest == AfterWww(AfterScheme(url))
    IN  /\ Len(rest) >= 3
        /\ rest[1] \in {"youtube.com", "youtu.be"}
        /\ rest[2] = "/"

GetInfoReq(url) ==
    Req("getVideoInfo", "POST", "/get-video-info", [url |-> url])

DownloadReq(url, format, language) ==
    Req("downloadSubtitle", "POST", "/download-subtitle",
        [url |-> url, format |-> format, language |-> language])

PreviewReq(url, language) ==
    Req("previewSubtitle", "POST", "/preview-subtitle", [url |-> url, language |-> language])

\* the input handler of #youtube-url: the button is enabled for a valid URL
DisabledAfterInput(url) == ~(Trim(url) # << >> /\ isValidYouTubeUrl(Trim(url)))

TypeUrl ==
    \E url \in UrlValues :
        /\ page = "main"
        /\ youtubeUrl' = url
        /\ getInfoDisabled' = DisabledAfterInput(url)
        /\ last' = Ev("input", NoResp)
        /\ UNCHANGED <<adminVars, prefillVars, inflight, alertVars, page, sourceLanguage,
                       currentVideoInfo, videoPreviewShown, previewModalShown, loadingShown>>

\* the requests the click handler of #get-info-btn sends for the field's value
GetInfoRequests(url) ==
    IF Trim(url) = << >> \/ ~isValidYouTubeUrl(Trim(url))
    THEN << >>
    ELSE <<GetInfoReq(Trim(url))>>

GetInfoAlerts(url) == IF GetInfoRequests(url) = << >> THEN <<"error">> ELSE << >>

\* the click handler of #get-info-btn.  A click of the user reaches it only
\* while the button is enabled; the Enter and Ctrl+Enter shortcuts call
\* $('#get-info-btn').click(), which runs it in any case
ClickGetInfo ==
    \E byKey \in BOOLEAN :
        /\ page = "main"
        /\ byKey \/ ~getInfoDisabled
        /\ Send(GetInfoRequests(youtubeUrl))
        /\ ShowAlerts(GetInfoAlerts(youtubeUrl))
        /\ loadingShown' = (loadingShown \/ GetInfoRequests(youtubeUrl) # << >>)
        /\ last' = Ev("getInfo", NoResp)
        /\ UNCHANGED <<adminVars, prefillVars, page, youtubeUrl, sourceLanguage, getInfoDisabled,
                       currentVideoInfo, videoPreviewShown, previewModalShown>>

\* a callback that stores whatever the answer carries
InfoAfterFetchAlways(info, out) == out.value

\* currentVideoInfo after getVideoInfo's callback ran on answer out
InfoAfterFetch(info, out) == IF out.kind = "success" THEN out.value ELSE info

FetchAlerts(out) == IF out.kind = "success" THEN << >> ELSE <<"error">>

\* the codes of response.available_subtitles in the answer that carries value
AvailableSubtitles(value) == IF value = "i1" THEN {"vi"} ELSE {}

\* updateLanguageOptions: every option after the first, the default English
\* one, is removed and one option per available subtitle is appended
OptionsAfterUpdate(options, available) == {"en"} \cup available

\* the success or error callback of getVideoInfo's $.ajax
GetVideoInfoResponse ==
    \E r \in BagToSet(inflight) :
        /\ r.cb = "getVideoInfo"
        /\ \E out \in Outcomes(VideoInfos) :
            /\ Answer(r, << >>)
            /\ loadingShown' = FALSE
            /\ currentVideoInfo' = InfoAfterFetch(currentVideoInfo, out)
            /\ videoPreviewShown' = (videoPreviewShown \/ out.kind = "success")
            /\ sourceLanguage' = IF out.kind = "success" THEN "en" ELSE sourceLanguage
            /\ languageOptions' =
                   IF out.kind = "success"
                   THEN OptionsAfterUpdate(languageOptions, AvailableSubtitles(out.value))
                   ELSE languageOptions
            /\ ShowAlerts(FetchAlerts(out))
            /\ last' = Ev(r.cb, out)
            /\ UNCHANGED <<adminVars, stored, page, youtubeUrl, getInfoDisabled,
                           previewModalShown>>

\* the requests the click handler of .btn-download sends
DownloadRequests(info, url, format, language) ==
    IF info = "null" THEN << >> ELSE <<DownloadReq(Trim(url), format, language)>>

\* the requests the click handler of #preview-btn sends
PreviewRequests(info, url, language) ==
    IF info = "null" THEN << >> ELSE <<PreviewReq(Trim(url), language)>>

\* the click handler of .btn-download
ClickDownload ==
    \E format \in Formats :
        LET reqs == DownloadRequests(currentVideoInfo, youtubeUrl, format, sourceLanguage)
        IN  /\ page = "main"
            /\ Send(reqs)
            /\ ShowAlerts(IF reqs = << >> THEN <<"error">> ELSE << >>)
            /\ loadingShown' = (loadingShown \/ reqs # << >>)
            /\ last' = Ev("download", NoResp)
            /\ UNCHANGED <<adminVars, prefillVars, page, youtubeUrl, sourceLanguage, getInfoDisabled,
                           currentVideoInfo, videoPreviewShown, previewModalShown>>

\* the click handler of #preview-btn
ClickPreview ==
    LET reqs == PreviewRequests(currentVideoInfo, youtubeUrl, sourceLanguage)
    IN  /\ page = "main"
        /\ Send(reqs)
        /\ ShowAlerts(IF reqs = << >> THEN <<"error">> ELSE << >>)
        /\ loadingShown' = (loadingShown \/ reqs # << >>)
        /\ last' = Ev("preview", NoResp)
        /\ UNCHANGED <<adminVars, prefillVars, page, youtubeUrl, sourceLanguage, getInfoDisabled,
                       currentVideoInfo, videoPreviewShown, previewModalShown>>

DownloadAlerts(out) == IF out.kind = "success" THEN <<"success">> ELSE <<"error">>

\* the then/catch chain of downloadSubtitle's fetch: a response that is ok,
\* one that is not, or a rejected fetch
DownloadResponse ==
    \E r \in BagToSet(inflight) :
        /\ r.cb = "downloadSubtitle"
        /\ \E out \in Outcomes({"blob"}) :
            /\ Answer(r, << >>)
            /\ loadingShown' = FALSE
            /\ ShowAlerts(DownloadAlerts(out))
            /\ last' = Ev(r.cb, out)
            /\ UNCHANGED <<adminVars, prefillVars, page, youtubeUrl, sourceLanguage, getInfoDisabled,
                           currentVideoInfo, videoPreviewShown, previewModalShown>>

PreviewAlerts(out) == IF out.kind = "success" THEN << >> ELSE <<"error">>

\* the success or error callback of previewSubtitle's $.ajax
PreviewResponse ==
    \E r \in BagToSet(inflight) :
        /\ r.cb = "previewSubtitle"
        /\ \E out \in Outcomes({"text"}) :
            /\ Answer(r, << >>)
            /\ loadingShown' = FALSE
            /\ previewModalShown' = (previewModalShown \/ out.kind = "success")
            /\ ShowAlerts(PreviewAlerts(out))
            /\ last' = Ev(r.cb, out)
            /\ UNCHANGED <<adminVars, prefillVars, page, youtubeUrl, sourceLanguage, getInfoDisabled,
                           currentVideoInfo, videoPreviewShown>>

\* .hide() on the modal: whether it is still shown
ShownAfterHide(shown) == FALSE

\* a modal handler of the public page hides the preview modal; event names it
HideModal(event) ==
    /\ page = "main"
    /\ previewModalShown' = ShownAfterHide(previewModalShown)
    /\ last' = Ev(event, Found(previewModalShown))
    /\ UNCHANGED <<adminVars, prefillVars, inflight, alertVars, page, youtubeUrl, sourceLanguage,
                   getInfoDisabled, currentVideoInfo, videoPreviewShown, loadingShown>>

\* the click handler of the modal's .close button
MainClickClose == HideModal("clickClose")

\* the click handler of window, for a click whose target is the modal itself
MainClickBackdrop == HideModal("clickBackdrop")

\* the Escape branch of the keydown handler
MainKeyEscape == HideModal("keyEscape")

\* currentVideoInfo = null
InfoAfterClear(info) == "null"

\* localStorage.removeItem('subtitleFormData')
StoredAfterClear(entry) == NoEntry

\* the click handler of .clear-form
ClickClearForm ==
    /\ page = "main"
    /\ youtubeUrl' = << >>
    /\ sourceLanguage' = "en"
    /\ videoPreviewShown' = FALSE
    /\ currentVideoInfo' = InfoAfterClear(currentVideoInfo)
    /\ stored' = StoredAfterClear(stored)
    /\ showAlert("info")
    /\ last' = Ev("clearForm", NoResp)
    /\ UNCHANGED <<adminVars, languageOptions, inflight, page, getInfoDisabled,
                   previewModalShown, loadingShown>>

\* localStorage.setItem('subtitleFormData', JSON.stringify(data)) with the
\* values the two fields hold
StoredAfterChange(url, language) ==
    [present |-> TRUE, url |-> url, sourceLanguage |-> language]

\* the change handler of '#youtube-url, #source-language'
StoreFormData(event) ==
    /\ stored' = StoredAfterChange(youtubeUrl', sourceLanguage')
    /\ last' = Ev(event, NoResp)
    /\ UNCHANGED <<adminVars, languageOptions, inflight, alertVars, page, getInfoDisabled,
                   currentVideoInfo, videoPreviewShown, previewModalShown, loadingShown>>

\* the change event of #youtube-url, which the browser fires when the user
\* commits the text typed into the field
ChangeUrl ==
    /\ page = "main"
    /\ UNCHANGED <<youtubeUrl, sourceLanguage>>
    /\ StoreFormData("changeUrl")

\* the user picks another option of #source-language: the select takes its
\* value and the change event runs the handler
ChangeLanguage ==
    \E language \in languageOptions \ {sourceLanguage} :
        /\ page = "main"
        /\ sourceLanguage' = language
        /\ UNCHANGED youtubeUrl
        /\ StoreFormData("changeLanguage")

\* $('#source-language').val(value): the option with that value is selected,
\* and no option is when the select has none with that value (.val() is then
\* null)
SelectAfterVal(options, value) == IF value \in options THEN value ELSE "null"

\* the prefill of the ready callback: JSON.parse of the entry, or of '{}'
UrlAfterLoad(entry) ==
    IF entry.present /\ entry.url # << >> THEN entry.url ELSE << >>

LanguageAfterLoad(entry) ==
    IF entry.present /\ entry.sourceLanguage \notin {"", "null"}
    THEN SelectAfterVal(TemplateLanguages, entry.sourceLanguage)
    ELSE "en"

\* the page is loaded again: the requests and timers of the page before are
\* gone with it, and the ready callback of main.js runs on the template with
\* what localStorage holds
ReloadMain ==
    /\ page = "main"
    /\ youtubeUrl' = UrlAfterLoad(stored)
    /\ sourceLanguage' = LanguageAfterLoad(stored)
    /\ languageOptions' = TemplateLanguages
    /\ getInfoDisabled' = FALSE
    /\ currentVideoInfo' = "null"
    /\ videoPreviewShown' = FALSE
    /\ previewModalShown' = FALSE
    /\ loadingShown' = FALSE
    /\ inflight' = EmptyBag
    /\ alerts' = << >>
    /\ last' = Ev("ready", NoResp)
    /\ UNCHANGED <<adminVars, stored, page>>

\* the admin page's variables while the tab shows the public page
AdminAtLoad ==
    /\ currentSection = "dashboard"
    /\ activeRegions = InitialRegions
    /\ pageTitle = "Dashboard"
    /\ content = [c \in Containers |-> Unrendered]
    /\ modalActive = FALSE
    /\ modalTitle = ""
    /\ form = EmptyForm
    /\ sessionWarningShown = FALSE
    /\ warnings = 0
    /\ settingsInputs = << >>
    /\ autoSaveTimers = 0
    /\ TablesAtLoad

\* the state when the ready callback of main.js has run with nothing stored
\* for the form
InitMain ==
    /\ page = "main"
    /\ AdminAtLoad
    /\ MainAtLoad
    /\ inflight = EmptyBag
    /\ alerts = << >>
    /\ last = Ev("ready", NoResp)

\* the public page
NextMain ==
    \/ TypeUrl
    \/ ClickGetInfo
    \/ GetVideoInfoResponse
    \/ ClickDownload
    \/ DownloadResponse
    \/ ClickPreview
    \/ PreviewResponse
    \/ MainClickClose
    \/ MainClickBackdrop
    \/ MainKeyEscape
    \/ ClickClearForm
    \/ AlertTimerFires

SpecMain == InitMain /\ [][NextMain]_vars

\* the form's fields, their stored copy and page loads
NextPrefill ==
    \/ TypeUrl
    \/ ChangeUrl
    \/ ChangeLanguage
    \/ ClickGetInfo
    \/ GetVideoInfoResponse
    \/ ClickClearForm
    \/ ReloadMain
    \/ AlertTimerFires

SpecPrefill == InitMain /\ [][NextPrefill]_vars

-----------------------------------------------------------------------------
(* Specifications *)

\* a page that counts its loading overlay among the modals
OpenModalsWithOverlay ==
    (IF previewModalShown THEN {"preview-modal"} ELSE {})
        \cup (IF loadingShown THEN {"loading-overlay"} ELSE {})
        \cup (IF modalActive THEN {"banner-modal"} ELSE {})

\* the .modal elements of the page that are displayed: on the admin page
\* those with class 'active', on the public page those shown by .show()
OpenModals ==
    IF page = "admin"
    THEN (IF modalActive THEN {"banner-modal"} ELSE {})
    ELSE (IF previewModalShown THEN {"preview-modal"} ELSE {})

\* the visitors section is shown and its table was rendered from an answer
InitVisitors ==
    /\ currentSection = "visitors"
    /\ activeRegions = {"visitors"}
    /\ pageTitle = titles("visitors")
    /\ content = [c \in Containers |-> IF c = "visitors" THEN "v1" ELSE Unrendered]
    /\ inflight = EmptyBag
    /\ modalActive = FALSE
    /\ modalTitle = ""
    /\ form = EmptyForm
    /\ alerts = << >>
    /\ sessionWarningShown = FALSE
    /\ warnings = 0
    /\ settingsInputs = << >>
    /\ autoSaveTimers = 0
    /\ TablesAtLoad
    /\ page = "admin"
    /\ MainAtLoad
    /\ last = Ev("loadVisitors", Success("v1"))

\* clicks on the nav items of the two sections that hold a table
ClickNavTable == \E section \in Tables : showSection(section)

\* searching and exporting the tables while they are reloaded
NextExport ==
    \/ ClickNavTable
    \/ AutoRefreshTick
    \/ LoaderResponse
    \/ SearchInput
    \/ exportData
    \/ AlertTimerFires

SpecExport == InitVisitors /\ [][NextExport]_vars

\* a tab that shows either page
InitPages == InitBanner \/ InitMain

\* the banner modal of the admin page with its close events and alerts, and
\* the public page
NextPages ==
    \/ KeyCtrlN
    \/ ClickEditBanner
    \/ LoadBannerDataResponse
    \/ closeBannerModal
    \/ ClickClose
    \/ ClickBackdrop
    \/ KeyEscape
    \/ SubmitBannerForm
    \/ SaveBannerResponse
    \/ LoaderResponse
    \/ NextMain

SpecPages == InitPages /\ [][NextPages]_vars

\* navigation, loaders and polling
NextNav ==
    \/ ClickNav
    \/ LoaderResponse
    \/ AutoRefreshTick

SpecNav == Init /\ [][NextNav]_vars

-----------------------------------------------------------------------------
(* Properties *)

\* number of copies of request r in bag b
Count(r, b) == IF BagIn(r, b) THEN CopiesIn(r, b) ELSE 0

\* the requests of bag b whose callback is cb
CountCb(cb, b) == BagCardinality([r \in {q \in BagToSet(b) : q.cb = cb} |-> b[r]])

\* the step sent exactly the requests of the sequence reqs, and no answer arrived
SentOnly(reqs) == inflight' = inflight (+) SeqToBag(reqs)

\* the step took the answer to one request of callback cb and sent exactly reqs
AnsweredAndSent(cb, reqs) ==
    \E r \in BagToSet(inflight) :
        /\ r.cb = cb
        /\ inflight' = (inflight (-) SetToBag({r})) (+) SeqToBag(reqs)

\* the step showed exactly one alert, of class type, and it is the only one in the page
ShowedAlert(type) ==
    /\ Len(alerts') = Len(alerts) + 1
    /\ alerts'[Len(alerts')] = [type |-> type, inPage |-> TRUE]
    /\ \A i \in 1..Len(alerts) : ~alerts'[i].inPage

\* the step showed no alert and removed none
NoAlertChange == alerts' = alerts

\* C1: once a section of the fixed set is current, exactly one region is
\* visible, it is the region of the current section, and all others are hidden
C1_OneRegionVisible ==
    currentSection \in Sections =>
        /\ activeRegions = {currentSection}
        /\ Cardinality(activeRegions) = 1

C1_Witness ==
    /\ last.h = "showSection"
    /\ currentSection = "visitors"
    /\ activeRegions = {"visitors"}

\* the banner form does not pass validateBannerForm's checks: no title after
\* trimming, or no position
FormInvalid == Trim(form.title) = << >> \/ form.position = ""

\* C2: a submit of the banner form without a title (after trimming) or
\* without a position sends no request at all and shows an error alert
C2_InvalidSubmitSendsNothing ==
    [][(last'.h = "submit" /\ FormInvalid) =>
           (inflight' = inflight /\ ShowedAlert("error"))]_vars

\* C3: a banner save or delete answered with success=true reloads the banner
\* list exactly once and shows exactly one success alert; one that did not
\* succeed reloads nothing and shows no success alert
C3_ReloadAndNotifyOnce ==
    [][\A cb \in {"saveBanner", "deleteBanner"} :
           (last'.h = cb) =>
               IF last'.resp.kind = "success"
               THEN AnsweredAndSent(cb, <<BannersReq>>) /\ ShowedAlert("success")
               ELSE AnsweredAndSent(cb, << >>) /\ ~ShowedAlert("success")
                    /\ \A i \in DOMAIN alerts' : alerts'[i].inPage => alerts'[i].type # "success"]_vars

C3_Witness ==
    /\ last.h = "deleteBanner"
    /\ last.resp.kind = "success"
    /\ Count(BannersReq, inflight) = 1
    /\ alerts # << >>
    /\ alerts[Len(alerts)] = [type |-> "success", inPage |-> TRUE]

\* C4: a banner save answered with success=true closes the modal; one answered
\* with success=false or failing on the network shows an error alert and
\* leaves the modal as it was
C4_ModalAfterSave ==
    [][(last'.h = "saveBanner") =>
           IF last'.resp.kind = "success"
           THEN ~modalActive'
           ELSE /\ ShowedAlert("error")
                /\ UNCHANGED <<modalActive, modalTitle, form>>]_vars

C4_Witness ==
    /\ last.h = "saveBanner"
    /\ last.resp.kind = "error"
    /\ modalActive
    /\ alerts # << >>
    /\ alerts[Len(alerts)] = [type |-> "error", inPage |-> TRUE]

\* C5: with an image attached a submit sends only the upload; the save is
\* sent when the upload has succeeded and carries the path the upload
\* returned; a failed upload sends nothing and shows an error alert; without
\* an image the submit sends the save directly, with no image path
C5_UploadBeforeSave ==
    [][/\ (last'.h = "submit" /\ form.image # "") =>
              /\ CountCb("uploadBannerImage", inflight') = CountCb("uploadBannerImage", inflight) + 1
              /\ CountCb("saveBanner", inflight') = CountCb("saveBanner", inflight)
              /\ BagCardinality(inflight') = BagCardinality(inflight) + 1
       /\ (last'.h = "submit" /\ form.image = "") =>
              \E r \in BagToSet(inflight') :
                  /\ r.cb = "saveBanner"
                  /\ "image_path" \notin DOMAIN r.data
                  /\ SentOnly(<<r>>)
       /\ (last'.h = "uploadBannerImage" /\ last'.resp.kind = "success") =>
              \E r \in BagToSet(inflight') :
                  /\ r.cb = "saveBanner"
                  /\ "image_path" \in DOMAIN r.data
                  /\ r.data["image_path"] = last'.resp.value
                  /\ AnsweredAndSent("uploadBannerImage", <<r>>)
       /\ (last'.h = "uploadBannerImage" /\ last'.resp.kind # "success") =>
              AnsweredAndSent("uploadBannerImage", << >>) /\ ShowedAlert("error")
       /\ (CountCb("saveBanner", inflight') > CountCb("saveBanner", inflight)) =>
              \/ last'.h = "submit" /\ form.image = ""
              \/ last'.h = "uploadBannerImage" /\ last'.resp.kind = "success"]_vars

C5_Witness ==
    /\ last.h = "uploadBannerImage"
    /\ last.resp.kind = "success"
    /\ \E r \in BagToSet(inflight) :
           /\ r.cb = "saveBanner"
           /\ "image_path" \in DOMAIN r.data
           /\ r.data["image_path"] = last.resp.value

\* a save request is a PUT that carries an id, or a POST that carries none
MethodMatchesId(r) ==
    /\ r.method \in {"PUT", "POST"}
    /\ r.method = "PUT" <=> "id" \in DOMAIN r.data

\* C6: a save is a PUT exactly when the banner-id field was non-empty when the
\* form was submitted and a POST exactly when it was empty, it carries an id
\* (that of the field at submit time) exactly when it is a PUT, and an upload
\* in between does not change either
C6_MethodFixedAtSubmit ==
    [][/\ \A r \in BagToSet(inflight') : r.cb = "saveBanner" => MethodMatchesId(r)
       /\ (last'.h = "submit") =>
              \E r \in BagToSet(inflight') :
                  /\ SentOnly(<<r>>)
                  /\ LET data   == IF r.cb = "saveBanner" THEN r.data ELSE r.data.formData
                         isPut  == IF r.cb = "saveBanner" THEN r.method = "PUT" ELSE r.data.isEdit
                     IN  /\ isPut <=> form.bannerId # ""
                         /\ "id" \in DOMAIN data <=> isPut
                         /\ "id" \in DOMAIN data => data["id"] = form.bannerId
       /\ (last'.h = "uploadBannerImage" /\ last'.resp.kind = "success") =>
              \E u \in BagToSet(inflight), r \in BagToSet(inflight') :
                  /\ u.cb = "uploadBannerImage"
                  /\ r.cb = "saveBanner"
                  /\ inflight' = (inflight (-) SetToBag({u})) (+) SetToBag({r})
                  /\ r.method = "PUT" <=> u.data.isEdit
                  /\ "id" \in DOMAIN r.data <=> "id" \in DOMAIN u.data.formData
                  /\ "id" \in DOMAIN r.data => r.data["id"] = u.data.formData["id"]]_vars

C6_Witness ==
    /\ last.h = "uploadBannerImage"
    /\ last.resp.kind = "success"
    /\ form.bannerId = ""
    /\ \E r \in BagToSet(inflight) :
           /\ r.cb = "saveBanner"
           /\ r.method = "PUT"
           /\ r.data["id"] = "1"

\* C7: when a loader's request fails on the network or is answered with
\* success=false, every container keeps the content it had
C7_StaleOnError ==
    [][(last'.h \in LoaderCbs /\ last'.resp.kind # "success") => content' = content]_vars

C7_Witness ==
    /\ last.h = "loadVisitors"
    /\ last.resp.kind = "error"
    /\ content["visitors"] = "v1"

\* C8: every loader shows an error alert when its request fails on the
\* network or is answered with success=false
C8_LoaderFailureAlerts ==
    [][(last'.h \in LoaderCbs /\ last'.resp.kind # "success") => ShowedAlert("error")]_vars

\* the request of the loader of section, sent once
SectionLoader(section) ==
    CASE section = "dashboard" -> SetToBag({StatsReq})
      [] section = "visitors"  -> SetToBag({VisitorsReq})
      [] section = "banners"   -> SetToBag({BannersReq})
      [] section = "downloads" -> SetToBag({DownloadsReq})
      [] section = "settings"  -> SetToBag({SettingsReq})
      [] OTHER                 -> EmptyBag

\* C9 as stated: every tick of the 30 s timer invokes the loader of the
\* current section, for each of the five sections
C9_TickReloadsCurrentSection ==
    [][(last'.h = "autoRefresh" /\ currentSection \in Sections) =>
           inflight' = inflight (+) SectionLoader(currentSection)]_vars

\* C9 amended: a tick invokes the loader of the current section, and no
\* other, when the current section is dashboard or visitors; when banners,
\* downloads or settings is current it invokes no loader
C9_TickReloadsDashboardOrVisitors ==
    [][(last'.h = "autoRefresh") =>
           /\ UNCHANGED <<currentSection, content>>
           /\ inflight' = IF currentSection \in {"dashboard", "visitors"}
                          THEN inflight (+) SectionLoader(currentSection)
                          ELSE inflight]_vars

C9_Witness ==
    /\ last.h = "autoRefresh"
    /\ currentSection = "visitors"
    /\ Count(VisitorsReq, inflight) = 2

\* C10: between two successful probe answers at most one session warning is
\* raised, however many probes fail with 401; a successful answer resets the
\* flag, so the next 401 warns again; a failure with another status neither
\* warns nor changes the flag
C10_WarningOneShot ==
    [][/\ warnings' <= 1
       /\ (last'.h = "sessionCheckResponse") =>
              CASE last'.resp.kind # "error" ->
                       ~sessionWarningShown' /\ NoAlertChange
                [] last'.resp.kind = "error" /\ last'.resp.status = 401 ->
                       /\ sessionWarningShown'
                       /\ IF sessionWarningShown THEN NoAlertChange ELSE ShowedAlert("error")
                [] OTHER ->
                       UNCHANGED sessionWarningShown /\ NoAlertChange
       /\ (last'.h # "sessionCheckResponse") => UNCHANGED sessionWarningShown]_vars

C10_Witness ==
    /\ last.h = "sessionCheckResponse"
    /\ last.resp.kind = "error"
    /\ last.resp.status = 401
    /\ sessionWarningShown
    /\ warnings = 1
    /\ alerts = << >>

\* C11: at most one alert element is in the page before and after every
\* step; showAlert leaves the new alert as the only one, and the timer of an
\* alert that was not replaced takes it out of the page
C11_AtMostOneAlert ==
    [][/\ Cardinality(AlertsInPage) <= 1
       /\ Cardinality(AlertsInPage') <= 1
       /\ (Len(alerts') > Len(alerts)) => AlertsInPage' = {Len(alerts')}
       /\ (last'.h = "alertTimer" /\ alerts # << >> /\ alerts[1].inPage) =>
              AlertsInPage' = {}]_vars

C11_Witness ==
    /\ page = "main"
    /\ last.h = "alertTimer"
    /\ Len(alerts) = 1
    /\ alerts[1] = [type |-> "info", inPage |-> TRUE]

\* the modal of the page is open
ModalOpen == IF page = "admin" THEN modalActive ELSE previewModalShown

\* C12: after Escape, a click on the backdrop or a click on the close button
\* the modal is closed, whether it was open (in create or in edit mode) or
\* closed before
C12_CloseEventsClose ==
    [][(last'.h \in {"keyEscape", "clickBackdrop", "clickClose"}) =>
           /\ last'.resp.kind = (IF ModalOpen THEN "open" ELSE "closed")
           /\ ~ModalOpen']_vars

C12_Witness ==
    /\ page = "admin"
    /\ last = Ev("clickBackdrop", Found(TRUE))
    /\ modalTitle = "Chinh sua Banner"
    /\ ~modalActive

C14_DeleteNeedsConfirm ==
    [][/\ (CountCb("deleteBanner", inflight') > CountCb("deleteBanner", inflight)) =>
              /\ last'.h = "clickDelete"
              /\ last'.resp.kind = "ok"
              /\ \E id \in BannerIdsOf(content["banners"]) :
                     /\ ToText(id) = last'.resp.value
                     /\ SentOnly(<<DeleteReq(id)>>)
       /\ (last'.h = "clickDelete" /\ last'.resp.kind = "cancel") =>
              /\ inflight' = inflight
              /\ UNCHANGED <<content, modalActive, modalTitle, form, alerts>>]_vars

C14_Witness ==
    /\ last.h = "clickDelete"
    /\ last.resp.kind = "ok"
    /\ last.resp.value = "1"
    /\ Count(DeleteReq(Num("1")), inflight) = 1
    /\ modalActive

\* the URL field, trimmed, does not hold a youtube.com or youtu.be URL
UrlInvalid == ~isValidYouTubeUrl(Trim(youtubeUrl))

\* C15: whenever the URL field holds no YouTube URL, get-info, download and
\* preview each send no request and show an error alert, also when video
\* info was fetched for an earlier valid URL
C15_InvalidUrlBlocksActions ==
    [][(last'.h \in {"getInfo", "download", "preview"} /\ UrlInvalid) =>
           (inflight' = inflight /\ ShowedAlert("error"))]_vars

\* C17: currentVideoInfo is null at page load; it changes only by a
\* successful /get-video-info answer, which stores the info it carries, and
\* by the clear-form action, which makes it null; a failed fetch leaves it;
\* download and preview send their request only while it is not null and
\* otherwise only show an error alert
C17_VideoInfoLifetime ==
    [][/\ (last.h = "ready") => currentVideoInfo = "null"
       /\ (currentVideoInfo' # currentVideoInfo) =>
              \/ last'.h = "getVideoInfo" /\ last'.resp.kind = "success"
              \/ last'.h = "clearForm"
       /\ (last'.h = "getVideoInfo" /\ last'.resp.kind = "success") =>
              currentVideoInfo' = last'.resp.value
       /\ (last'.h = "getVideoInfo" /\ last'.resp.kind # "success") =>
              UNCHANGED currentVideoInfo
       /\ (last'.h = "clearForm") => currentVideoInfo' = "null"
       /\ \A h \in {"download", "preview"} :
              (last'.h = h) =>
                  LET cb == IF h = "download" THEN "downloadSubtitle" ELSE "previewSubtitle"
                  IN  IF currentVideoInfo = "null"
                      THEN inflight' = inflight /\ ShowedAlert("error")
                      ELSE /\ CountCb(cb, inflight') = CountCb(cb, inflight) + 1
                           /\ BagCardinality(inflight') = BagCardinality(inflight) + 1
                           /\ NoAlertChange]_vars

C17_Witness ==
    /\ last.h = "preview"
    /\ currentVideoInfo = "i2"
    /\ CountCb("previewSubtitle", inflight) = 1
    /\ CountCb("getVideoInfo", inflight) = 1

\* String.prototype.split on a text, for a separator of one character
RECURSIVE Split(_, _)
Split(text, sep) ==
    IF \A i \in DOMAIN text : text[i] # sep THEN <<text>>
    ELSE LET k == CHOOSE i \in DOMAIN text :
                      text[i] = sep /\ \A j \in 1..(i - 1) : text[j] # sep
         IN  <<SubSeq(text, 1, k - 1)>> \o Split(SubSeq(text, k + 1, Len(text)), sep)

\* the line of the CSV a body row is written as
CsvLine(row) == Join([j \in DOMAIN row |-> ReplaceCommas(row[j])], <<",">>)

\* the body rows of a table that the search filter has not hidden
NotFiltered(table) == {i \in DOMAIN RowsOf(content[table]) : i \notin hidden[table]}

\* C16: an export of the visitors or the downloads table writes a CSV whose
\* first line holds the table's header texts and whose further lines are the
\* visible body rows, one line each and in table order: as many as there are
\* visible rows (the rows the filter has not hidden, when the table's
\* section is displayed), and never a row the filter has hidden
C16_ExportMatchesVisibleRows ==
    [][\A t \in Tables :
           (last'.h = "exportData" /\ last'.resp.value = t) =>
               LET lines == Split(csv'.text, "\n")
                   rows  == RowsOf(content[t])
               IN  /\ Split(lines[1], ",") = Headers(t)
                   /\ Len(lines) - 1 = Cardinality(VisibleRows(t))
                   /\ (t \in activeRegions) => Len(lines) - 1 = Cardinality(NotFiltered(t))
                   /\ \A k \in 2..Len(lines) :
                          \E i \in NotFiltered(t) : lines[k] = CsvLine(rows[i])
                   /\ \A i \in VisibleRows(t) :
                          \E k \in 2..Len(lines) : lines[k] = CsvLine(rows[i])
                   /\ \A i \in hidden[t] :
                          \A k \in 2..Len(lines) : lines[k] # CsvLine(rows[i])]_vars

C16_Witness ==
    /\ last.h = "exportData"
    /\ last.resp.value = "visitors"
    /\ "visitors" \in activeRegions
    /\ hidden["visitors"] = {1}
    /\ csv.filename = "visitors_export.csv"
    /\ Len(Split(csv.text, "\n")) = 2

\* C18: a successful answer to a loader's request is rendered into the
\* loader's containers whatever section is current when it arrives, so an
\* answer that arrives after the user has left the section still replaces
\* that section's content
C18_LateResponseRenders ==
    [][(last'.h \in LoaderCbs /\ last'.resp.kind = "success") =>
           /\ \A c \in RenderTargets(last'.h) : content'[c] = last'.resp.value
           /\ UNCHANGED <<currentSection, activeRegions>>]_vars

C18_Witness ==
    /\ last.h = "loadVisitors"
    /\ last.resp.kind = "success"
    /\ currentSection = "banners"
    /\ activeRegions = {"banners"}
    /\ content["visitors"] = "v1"
    /\ content["banners"] = Unrendered

\* C19: showSection with an identifier outside the fixed set makes no region
\* visible, sends no request and shows no alert; the title falls back to
\* 'Dashboard' and the rendered content stays
C19_UnknownSectionSilent ==
    [][(last'.h = "showSection" /\ currentSection' \notin Sections) =>
           /\ activeRegions' = {}
           /\ inflight' = inflight
           /\ NoAlertChange
           /\ content' = content
           /\ pageTitle' = "Dashboard"]_vars

C19_Witness ==
    /\ last.h = "showSection"
    /\ currentSection = UnknownSection
    /\ activeRegions = {}
    /\ content["visitors"] = "v1"
    /\ inflight = EmptyBag

\* C20: showBannerModal with a banner id opens the modal in edit mode and
\* sends one GET of the banner list, for every id; a successful answer that
\* holds a banner with that id writes that banner's id, title, description,
\* link, position and status into the form; showBannerModal without an id
\* opens the modal in create mode with the form reset and sends nothing
C20_OpenModalByMode ==
    [][/\ (last'.h = "showBannerModal" /\ last'.resp.kind # "null") =>
              /\ modalActive'
              /\ modalTitle' = "Chinh sua Banner"
              /\ \E id \in BannerIdsOf(content["banners"]) :
                     /\ ToText(id) = last'.resp.value
                     /\ SentOnly(<<EditReq(id)>>)
       /\ (last'.h = "showBannerModal" /\ last'.resp.kind = "null") =>
              /\ modalActive'
              /\ modalTitle' = "Them Banner"
              /\ form' = EmptyForm
              /\ inflight' = inflight
       /\ (last'.h = "loadBannerData" /\ last'.resp.kind = "success") =>
              \E r \in BagToSet(inflight) :
                  /\ r.cb = "loadBannerData"
                  /\ inflight' = inflight (-) SetToBag({r})
                  /\ \A i \in DOMAIN BannersOf(last'.resp.value) :
                         LET banner == BannersOf(last'.resp.value)[i]
                         IN  (banner.id = r.data.bannerId) =>
                                 /\ form'.bannerId = ToText(banner.id)
                                 /\ form'.title = banner.title
                                 /\ form'.description = banner.description
                                 /\ form'.link_url = banner.link_url
                                 /\ form'.position = banner.position
                                 /\ form'.status = banner.status]_vars

\* the number of positions of a text that hold character c
CountChar(text, c) == Cardinality({i \in DOMAIN text : text[i] = c})

\* C21: in an exported CSV every body cell is written with each of its commas
\* turned into a semicolon, so the line of a row of n cells holds exactly
\* n - 1 commas and splits on ',' into n fields, one per cell; the header
\* line is the header texts as they are, joined by commas
C21_CommasReplacedInBodyCells ==
    [][\A t \in Tables :
           (last'.h = "exportData" /\ last'.resp.value = t) =>
               LET lines == Split(csv'.text, "\n")
                   rows  == SelectRows(RowsOf(content[t]), VisibleRows(t), 1)
               IN  /\ Len(lines) = Len(rows) + 1
                   /\ lines[1] = Join(Headers(t), <<",">>)
                   /\ \A k \in DOMAIN rows :
                          LET fields == Split(lines[k + 1], ",")
                          IN  /\ CountChar(lines[k + 1], ",") = Len(rows[k]) - 1
                              /\ Len(fields) = Len(rows[k])
                              /\ \A j \in DOMAIN rows[k] :
                                     /\ Len(fields[j]) = Len(rows[k][j])
                                     /\ \A p \in DOMAIN rows[k][j] :
                                            fields[j][p] = IF rows[k][j][p] = "," THEN ";"
                                                           ELSE rows[k][j][p]]_vars

\* an export of the visitors table wrote a row that has a comma in a cell
C21_Witness ==
    /\ last.h = "exportData"
    /\ last.resp.value = "visitors"
    /\ VisibleRows("visitors") = {1, 2}
    /\ Split(csv.text, "\n")[2] = <<"a", ",", "b", ";", "c">>
    /\ Split(csv.text, "\n")[3] = <<"A", "b", ",", ";">>

\* the change events of the URL field and of the source-language select
ChangeEvents == {"changeUrl", "changeLanguage"}

\* C22: after every change event of the URL field or of the source-language
\* select the stored entry holds the values both fields then have; a page
\* load writes a stored URL and a stored language that are not empty back
\* into the two fields; the clear-form action removes the entry, and an
\* absent entry stays absent until a change event
C22_PrefillRoundTrip ==
    [][/\ (last'.h \in ChangeEvents) =>
              /\ stored'.present
              /\ stored'.url = youtubeUrl'
              /\ stored'.sourceLanguage = sourceLanguage'
       /\ (last'.h = "ready" /\ stored.present) =>
              /\ (stored.url # << >>) => youtubeUrl' = stored.url
              /\ (stored.sourceLanguage \notin {"", "null"}) =>
                     sourceLanguage' = stored.sourceLanguage
       /\ (last'.h = "clearForm") => ~stored'.present
       /\ (~stored.present /\ stored'.present) => last'.h \in ChangeEvents]_vars

\* the banner modal is open in create mode: showBannerModal's create branch
\* set its title last
CreateMode == modalActive /\ modalTitle = "Them Banner"

\* the requests the step sent
SentNow == {r \in BagToSet(inflight') : Count(r, inflight') > Count(r, inflight)}

\* C23: a form opened in create mode is submitted with POST and without an
\* id, and the answer to the banner-list fetch of an earlier edit-mode open
\* writes nothing into a form that was closed or reopened in create mode
\* since
C23_CreateModeSubmitsPost ==
    [][/\ (last'.h = "submit" /\ CreateMode) =>
              \A r \in SentNow :
                  /\ (r.cb = "saveBanner") => (r.method = "POST" /\ "id" \notin DOMAIN r.data)
                  /\ (r.cb = "uploadBannerImage") => ~r.data.isEdit
       /\ (last'.h = "loadBannerData" /\ (~modalActive \/ CreateMode)) =>
              form' = form]_vars

\* the banner modal is open in edit mode: showBannerModal's edit branch set
\* its title last
EditMode == modalActive /\ modalTitle = "Chinh sua Banner"

\* C24: a submit of the form while the modal is open in edit mode sends its
\* save as PUT with an id (an upload carries the edit flag), and a submit
\* right after the modal was opened for banner B, before the answer with the
\* banner list, sends the id of B
C24_EditModeSubmitsPut ==
    [][(last'.h = "submit" /\ EditMode) =>
           \A r \in SentNow :
               /\ (r.cb = "saveBanner") =>
                      /\ r.method = "PUT"
                      /\ "id" \in DOMAIN r.data
                      /\ (last.h = "showBannerModal") => r.data.id = last.resp.value
               /\ (r.cb = "uploadBannerImage") => r.data.isEdit]_vars

\* C25: in each searchable table a body row is hidden exactly when its text
\* does not contain, case-insensitively, the term its search input holds,
\* also after the table was rendered again while the input holds a term
C25_SearchFilterConsistent ==
    \A t \in Tables :
        \A i \in DOMAIN RowsOf(content[t]) :
            (i \in hidden[t]) <=>
                ~Includes(ToLowerCase(RowText(RowsOf(content[t])[i])), ToLowerCase(search[t]))

\* the get-info, download and preview requests that are not answered yet
Outstanding ==
    CountCb("getVideoInfo", inflight) + CountCb("downloadSubtitle", inflight)
        + CountCb("previewSubtitle", inflight)

\* C26: on the public page the loading overlay is shown exactly while a
\* get-info, download or preview request is outstanding: an answer does not
\* hide it while another request is outstanding, and it is hidden once none
\* is
C26_OverlayWhileOutstanding ==
    (page = "main") => (loadingShown <=> Outstanding > 0)

\* C27: the dismissal timer of an alert removes that alert only: when the
\* timer of the oldest alert fires, every younger alert stays as it is, so an
\* alert that replaced it stays on screen; an alert on screen leaves the
\* screen only when its own timer fires or when a new alert replaces it
C27_TimerRemovesOwnAlert ==
    [][/\ (last'.h = "alertTimer") =>
              /\ Len(alerts') = Len(alerts) - 1
              /\ \A i \in 2..Len(alerts) : alerts'[i - 1] = alerts[i]
       /\ \A i \in DOMAIN alerts :
              alerts[i].inPage =>
                  \/ last'.h = "alertTimer" /\ i = 1
                  \/ last'.h = "alertTimer" /\ i > 1 /\ alerts'[i - 1].inPage
                  \/ last'.h # "alertTimer" /\ Len(alerts') = Len(alerts) /\ alerts'[i].inPage
                  \/ last'.h # "alertTimer" /\ Len(alerts') = Len(alerts) + 1
                         /\ alerts'[Len(alerts')].inPage]_vars

\* the timer of a replaced alert has fired and the alert that replaced it is
\* on screen, its own timer pending
C27_Witness ==
    /\ last.h = "alertTimer"
    /\ Len(alerts) = 1
    /\ alerts[1].inPage

\* C28: at most one auto-save timer is pending; every input event of a
\* settings field leaves exactly one pending, whatever was pending before,
\* and sends nothing; the timer, when it fires, sends one POST of the
\* settings with the values the inputs hold then, and leaves no timer
\* pending, so the inputs typed before it fires cause one save; only an
\* input event starts a timer, and only the timer and Ctrl+S save
C28_AutoSaveDebounced ==
    [][/\ autoSaveTimers <= 1 /\ autoSaveTimers' <= 1
       /\ (last'.h = "settingsInput") => (autoSaveTimers' = 1 /\ inflight' = inflight)
       /\ (last'.h = "autoSave") =>
              /\ autoSaveTimers = 1 /\ autoSaveTimers' = 0
              /\ SentOnly(<<Req("saveSettings", "POST", "/admin/api/settings",
                                [settings |-> settingsInputs'])>>)
       /\ (autoSaveTimers' > autoSaveTimers) => last'.h = "settingsInput"
       /\ (CountCb("saveSettings", inflight') > CountCb("saveSettings", inflight)) =>
              last'.h \in {"autoSave", "keyCtrlS"}]_vars

\* the timer has fired after a value was typed over another typed value, and
\* the one save it sent carries the value typed last
C28_Witness ==
    /\ last.h = "autoSave"
    /\ autoSaveTimers = 0
    /\ settingsInputs = << [name |-> "site_name", value |-> "s1"] >>
    /\ CountCb("saveSettings", inflight) = 1
    /\ Count(SaveSettingsReq(settingsInputs), inflight) = 1

\* C29: the clear-form action leaves currentVideoInfo null and the video
\* preview hidden, and the answer to a get-info request that was in flight
\* when the form was cleared changes neither
C29_ClearBlocksLateInfo ==
    [][/\ (last'.h = "clearForm") => (currentVideoInfo' = "null" /\ ~videoPreviewShown')
       /\ (last.h = "clearForm" /\ last'.h = "getVideoInfo") =>
              (currentVideoInfo' = "null" /\ ~videoPreviewShown')]_vars

====
